---- MODULE Spec2Model ----
(***************************************************************************)
(* A model of the QSPI flash driver (qspi-flash.cpp, qspi-winbond.cpp).    *)
(*                                                                         *)
(* Calling threads execute the driver's operations one HAL call at a time. *)
(* The QSPI command unit (the HAL handle), the flash chip behind it and    *)
(* the interrupt call-back are the environment.  A HAL call may fail, a    *)
(* bounded wait may time out whenever the awaited event has not happened.  *)
(*                                                                         *)
(* Flash contents are tracked at the addresses in DOMAIN mem only; every   *)
(* chip operation is applied to exactly the tracked addresses it covers.   *)
(* The chip executes every command the command unit accepts.               *)
(***************************************************************************)
EXTENDS Integers, Sequences, FiniteSets, TLC

VARIABLES
  mutex,        \* qspi::mutex_: 0 when free, else the owning thread
  sem,          \* qspi::semaphore_: number of pending posts
  hq,           \* *hqspi_: the HAL handle / command unit
  chip,         \* the flash chip: latches, status register 2, JEDEC id
  mem,          \* the flash array at the tracked addresses
  ident,        \* manufacturer_ID_, memory_type_, memory_capacity_
  valid_mem_ID, \* qspi::valid_mem_ID
  pimpl,        \* qspi::pimpl: 0 is nullptr, else the number of the profile object
  pc,           \* per thread: the statement it is at
  arg,          \* per thread: the operation called and its arguments
  res,          \* per thread: the local `result' of the running function
  loc,          \* per thread: the other locals (write loop, datareg, buff)
  rbuf,         \* per thread: the caller's read buffer, by flash address
  wlog,         \* per thread: the page_write calls made by the running write
  halLog,       \* per thread: the HAL calls made by the running function
  outcome       \* per thread: how the running function came to its result

vars == <<mutex, sem, hq, chip, mem, ident, valid_mem_ID, pimpl, pc, arg, res,
          loc, rbuf, wlog, halLog, outcome>>

-----------------------------------------------------------------------------
(* Bounds of the model. *)

\* Number of 256-byte pages the write/read inputs range over.
NPages == 2

\* Cap on the number of profile objects ever constructed.
MaxProfiles == 2

\* The calling threads; 0 stands for "no thread".
Threads == {1, 2}

-----------------------------------------------------------------------------
(* Program constants. *)

\* 0x100 in qspi::write: the page size.
PageSize == 256

\* The value of an erased flash byte.
ERASED == 255

\* A binary semaphore: at most one pending post.
SemMax == 1

\* The bounds of erase's completion wait.  qspi-flash.h, which sets them, is
\* not among the sources; the specification asks the chip-erase bound to be
\* the longest and the sector/block bound to be shorter.  The unit is arbitrary.
EraseTimeout ==
  [QSPI_ERASE_TIMEOUT |-> 1, QSPI_CHIP_ERASE_TIMEOUT |-> 2]

Min(a, b) == IF a < b THEN a ELSE b

\* x & y on bytes.
RECURSIVE And8(_, _, _)
And8(x, y, bits) ==
  IF bits = 0 THEN 0
  ELSE (IF x % 2 = 1 /\ y % 2 = 1 THEN 1 ELSE 0)
       + 2 * And8(x \div 2, y \div 2, bits - 1)

\* x | 2 on bytes.
Or2(x) == IF (x \div 2) % 2 = 1 THEN x ELSE x + 2

\* x & 2 on bytes.
And2(x) == IF (x \div 2) % 2 = 1 THEN 2 ELSE 0

\* Byte i of the caller's buffer `seed' (pw[i] in the test).
BufByte(seed, i) == (seed + i + (i \div PageSize)) % 256

-----------------------------------------------------------------------------
(* The flash chip. *)

EraseOps == {"SECTOR_ERASE", "BLOCK_32K_ERASE", "BLOCK_64K_ERASE", "CHIP_ERASE"}

\* Size of the unit each erase command clears (0: the whole chip).
EraseSize(which) ==
  CASE which = "SECTOR_ERASE" -> 4096
    [] which = "BLOCK_32K_ERASE" -> 32768
    [] which = "BLOCK_64K_ERASE" -> 65536
    [] OTHER -> 0

InErase(a, address, which) ==
  IF EraseSize(which) = 0 THEN TRUE
  ELSE a \div EraseSize(which) = address \div EraseSize(which)

DevErase(m, address, which) ==
  [a \in DOMAIN m |-> IF InErase(a, address, which) THEN ERASED ELSE m[a]]

\* Page program of n bytes buf[off..off+n-1] at address: the address wraps
\* inside the 256-byte page, a byte can only clear bits.
DevProgram(m, address, n, seed, off) ==
  [a \in DOMAIN m |->
     LET delta == (a - address) % PageSize
         i     == delta + PageSize * ((n - 1 - delta) \div PageSize)
     IN IF a \div PageSize = address \div PageSize /\ delta < n
          THEN And8(m[a], BufByte(seed, off + i), 8)
          ELSE m[a]]

\* The bytes a read of n bytes at address returns, by flash address.
DevRead(m, address, n) ==
  [a \in {x \in DOMAIN m : address <= x /\ x < address + n} |-> m[a]]

\* A command without a data phase reaches the chip when it is issued.
DevCommand(c, cmd) ==
  CASE cmd.Instruction = "WRITE_ENABLE" -> [c EXCEPT !.wel = TRUE]
    [] cmd.Instruction = "VOLATILE_SR_WRITE_ENABLE" -> [c EXCEPT !.vsr = TRUE]
    [] cmd.Instruction \in EraseOps /\ c.wel -> [c EXCEPT !.wip = TRUE]
    [] OTHER -> c

DevCommandMem(c, m, cmd) ==
  IF cmd.Instruction \in EraseOps /\ c.wel
    THEN DevErase(m, cmd.Address, cmd.Instruction)
    ELSE m

\* A command with an outgoing data phase reaches the chip with its data.
DevTransmit(c, cmd, byte) ==
  CASE cmd.Instruction = "WRITE_STATUS_REGISTER_2" /\ (c.vsr \/ c.wel) ->
         [c EXCEPT !.sr2 = byte, !.vsr = FALSE]
    [] cmd.Instruction = "QUAD_PAGE_PROGRAM" /\ c.wel -> [c EXCEPT !.wip = TRUE]
    [] OTHER -> c

DevTransmitMem(c, m, cmd, seed, off) ==
  IF cmd.Instruction = "QUAD_PAGE_PROGRAM" /\ c.wel
    THEN DevProgram(m, cmd.Address, cmd.NbData, seed, off)
    ELSE m

-----------------------------------------------------------------------------
(* The HAL handle and the HAL calls, as the driver uses them. *)

NoCmd ==
  [Instruction |-> "NONE", AddressMode |-> "NONE", Address |-> 0, NbData |-> 0,
   DataMode |-> "NONE"]

\* The fields of QSPI_CommandTypeDef that differ between the driver's commands.
Cmd(instr, amode, address, n, dmode) ==
  [Instruction |-> instr, AddressMode |-> amode, Address |-> address,
   NbData |-> n, DataMode |-> dmode]

\* State READY, nothing in flight.
HqReady == [State |-> "READY", owner |-> 0, cmd |-> NoCmd, dst |-> "none"]

\* Every HAL call is recorded in the caller's log.
Hal(t, fn, cmd, ok) ==
  halLog' = [halLog EXCEPT ![t] =
               Append(@, [fn |-> fn, Instruction |-> cmd.Instruction,
                          AddressMode |-> cmd.AddressMode,
                          Address |-> cmd.Address, ok |-> ok])]

\* HAL_QSPI_Abort: forces the unit back to READY whatever it was doing.
HAL_QSPI_Abort(t) ==
  /\ hq' = HqReady
  /\ UNCHANGED <<chip, mem>>
  /\ Hal(t, "Abort", NoCmd, TRUE)

\* HAL_QSPI_Command: accepted only by a READY unit.  A command without data
\* is sent at once; one with data is sent by the Transmit/Receive that follows.
HAL_QSPI_Command(t, ok, cmd) ==
  /\ ok => hq.State = "READY"
  /\ IF ~ok THEN UNCHANGED <<hq, chip, mem>>
     ELSE IF cmd.DataMode = "NONE"
       THEN /\ chip' = DevCommand(chip, cmd)
            /\ mem' = DevCommandMem(chip, mem, cmd)
            /\ hq' = HqReady
       ELSE /\ hq' = [hq EXCEPT !.cmd = cmd, !.owner = t]
            /\ UNCHANGED <<chip, mem>>
  /\ Hal(t, "Command", cmd, ok)

\* HAL_QSPI_Receive (blocking): the data phase of the command just configured.
HAL_QSPI_Receive(t, ok) ==
  /\ ok => hq.State = "READY" /\ hq.cmd # NoCmd
  /\ hq' = IF ok THEN HqReady ELSE hq
  /\ UNCHANGED <<chip, mem>>
  /\ Hal(t, "Receive", hq.cmd, ok)

\* HAL_QSPI_Transmit (blocking): sends the data of the command just configured.
HAL_QSPI_Transmit(t, ok, byte, seed, off) ==
  /\ ok => hq.State = "READY" /\ hq.cmd # NoCmd
  /\ IF ok
       THEN /\ chip' = DevTransmit(chip, hq.cmd, byte)
            /\ mem' = DevTransmitMem(chip, mem, hq.cmd, seed, off)
            /\ hq' = HqReady
       ELSE UNCHANGED <<hq, chip, mem>>
  /\ Hal(t, "Transmit", hq.cmd, ok)

\* HAL_QSPI_Receive_IT: starts the reception; RxCpltCallback ends it.
HAL_QSPI_Receive_IT(t, ok, dst) ==
  /\ ok => hq.State = "READY" /\ hq.cmd # NoCmd
  /\ hq' = IF ok THEN [hq EXCEPT !.State = "BUSY_INDIRECT_RX", !.owner = t,
                                 !.dst = dst]
                 ELSE hq
  /\ UNCHANGED <<chip, mem>>
  /\ Hal(t, "Receive_IT", hq.cmd, ok)

\* HAL_QSPI_AutoPolling_IT: polls the status register until WIP reads 0;
\* StatusMatchCallback ends it.
HAL_QSPI_AutoPolling_IT(t, ok, cmd) ==
  /\ ok => hq.State = "READY"
  /\ hq' = IF ok THEN [State |-> "BUSY_AUTO_POLLING", owner |-> t, cmd |-> cmd,
                       dst |-> "none"]
                 ELSE hq
  /\ UNCHANGED <<chip, mem>>
  /\ Hal(t, "AutoPolling_IT", cmd, ok)

\* HAL_QSPI_MemoryMapped: the unit stays in memory-mapped mode until aborted.
HAL_QSPI_MemoryMapped(t, ok, cmd) ==
  /\ ok => hq.State = "READY"
  /\ hq' = IF ok THEN [State |-> "BUSY_MEM_MAPPED", owner |-> 0, cmd |-> cmd,
                       dst |-> "none"]
                 ELSE hq
  /\ UNCHANGED <<chip, mem>>
  /\ Hal(t, "MemoryMapped", cmd, ok)

-----------------------------------------------------------------------------
(* The RTOS primitives. *)

\* mutex_.timed_lock: acquires a free mutex; gives up while another holds it.
timed_lock(t, got) ==
  IF got THEN mutex = 0 /\ mutex' = t
         ELSE mutex \notin {0, t} /\ UNCHANGED mutex

\* mutex_.unlock
unlock(t) == mutex' = IF mutex = t THEN 0 ELSE mutex

\* semaphore_.timed_wait: takes a pending post; gives up while there is none.
timed_wait(got) ==
  IF got THEN sem > 0 /\ sem' = sem - 1
         ELSE sem = 0 /\ UNCHANGED sem

\* semaphore_.post
post == sem' = Min(sem + 1, SemMax)

-----------------------------------------------------------------------------
(* Statements common to the driver's functions. *)

idvars == <<ident, valid_mem_ID, pimpl>>

\* Where a function returns to: page_write returns into the loop of write.
Ret(t) == IF pc[t] \in {"disp", "pw_lock", "pw_unlock"} /\ arg[t].op = "write"
            THEN "w_after" ELSE "idle"

Goto(t, l) == pc' = [pc EXCEPT ![t] = l]

\* The reason of a result: "ok", or the failure ("LockTimeout": the mutex was
\* not obtained, "CommandTimeout": a HAL call did not return HAL_OK,
\* "CompletionTimeout": no completion signal, "IdentificationError": no
\* valid identity or no profile).
Because(t, ok, why) ==
  outcome' = [outcome EXCEPT ![t] = IF ok THEN @ ELSE why]

NoLoc ==
  [address |-> 0, off |-> 0, count |-> 0, in_block_count |-> 0, datareg |-> 0,
   buff |-> <<>>, bound |-> "none"]

\* return result; the locals of a call that returns to the caller are gone.
Return(t) ==
  /\ Goto(t, Ret(t))
  /\ loc' = IF Ret(t) = "idle" THEN [loc EXCEPT ![t] = NoLoc] ELSE loc
  /\ halLog' = IF Ret(t) = "idle" THEN [halLog EXCEPT ![t] = <<>>] ELSE halLog

\* if (mutex_.timed_lock (QSPI_TIMEOUT) == rtos::result::ok) { ... } return result;
StepLock(t, from, to) ==
  /\ pc[t] = from
  /\ \E got \in BOOLEAN :
       /\ timed_lock(t, got)
       /\ IF got THEN Goto(t, to) /\ UNCHANGED <<loc, halLog>> ELSE Return(t)
       /\ Because(t, got, "LockTimeout")
  /\ UNCHANGED <<sem, hq, chip, mem, idvars, arg, res, rbuf, wlog>>

\* HAL_QSPI_Abort (hqspi_);
StepAbort(t, from, to) ==
  /\ pc[t] = from
  /\ HAL_QSPI_Abort(t)
  /\ Goto(t, to)
  /\ UNCHANGED <<mutex, sem, idvars, arg, res, loc, rbuf, wlog, outcome>>

\* if (HAL_QSPI_Command (hqspi_, &sCommand, QSPI_TIMEOUT) == HAL_OK) ...
StepCommand(t, from, cmd, to, fail) ==
  /\ pc[t] = from
  /\ \E ok \in BOOLEAN :
       /\ HAL_QSPI_Command(t, ok, cmd)
       /\ Goto(t, IF ok THEN to ELSE fail)
       /\ Because(t, ok, "CommandTimeout")
  /\ UNCHANGED <<mutex, sem, idvars, arg, res, loc, rbuf, wlog>>

\* if (HAL_QSPI_Receive_IT (hqspi_, buff) == HAL_OK) ...
StepReceiveIT(t, from, dst, to, fail) ==
  /\ pc[t] = from
  /\ \E ok \in BOOLEAN :
       /\ HAL_QSPI_Receive_IT(t, ok, dst)
       /\ Goto(t, IF ok THEN to ELSE fail)
       /\ Because(t, ok, "CommandTimeout")
  /\ UNCHANGED <<mutex, sem, idvars, arg, res, loc, rbuf, wlog>>

\* The status poll both erase and page_write set up: READ_STATUS_REGISTER,
\* Match 0, Mask 1, automatic stop.
StepAutoPolling(t, from, to, fail) ==
  /\ pc[t] = from
  /\ \E ok \in BOOLEAN :
       /\ HAL_QSPI_AutoPolling_IT(t, ok, Cmd("READ_STATUS_REGISTER", "NONE", 0, 0, "1_LINE"))
       /\ Goto(t, IF ok THEN to ELSE fail)
       /\ Because(t, ok, "CommandTimeout")
  /\ UNCHANGED <<mutex, sem, idvars, arg, res, loc, rbuf, wlog>>

\* A completion wait with no bound: it returns only once the post has come.
StepWaitForever(t, from, bound, to, fail) ==
  /\ pc[t] = from
  /\ timed_wait(TRUE)
  /\ res' = [res EXCEPT ![t] = TRUE]
  /\ outcome' = [outcome EXCEPT ![t] = "ok"]
  /\ Goto(t, to)
  /\ loc' = [loc EXCEPT ![t].bound = bound]
  /\ UNCHANGED <<mutex, hq, chip, mem, idvars, arg, rbuf, wlog, halLog>>

\* if (semaphore_.timed_wait (bound) == rtos::result::ok) result = true;
StepWait(t, from, bound, to, fail) ==
  /\ pc[t] = from
  /\ \E got \in BOOLEAN :
       /\ timed_wait(got)
       /\ res' = [res EXCEPT ![t] = got]
       /\ outcome' = [outcome EXCEPT ![t] = IF got THEN "ok" ELSE "CompletionTimeout"]
       /\ Goto(t, IF got THEN to ELSE fail)
  /\ loc' = [loc EXCEPT ![t].bound = bound]
  /\ UNCHANGED <<mutex, hq, chip, mem, idvars, arg, rbuf, wlog, halLog>>

\* mutex_.unlock (); } return result;
StepUnlock(t, from) ==
  /\ pc[t] = from
  /\ unlock(t)
  /\ Return(t)
  /\ UNCHANGED <<sem, hq, chip, mem, idvars, arg, res, rbuf, wlog, outcome>>

-----------------------------------------------------------------------------
(* qspi::read_JEDEC_ID *)

\* The identities a chip may answer with; an unread buff[3] holds any of them.
IdSet == {<<239, 64, 24>>, <<32, 186, 24>>}

RJ_Lock(t) == StepLock(t, "rj_lock", "rj_abort")

RJ_Abort(t) == StepAbort(t, "rj_abort", "rj_cmd")

RJ_Command(t) ==
  StepCommand(t, "rj_cmd", Cmd("JEDEC_ID", "NONE", 0, 3, "1_LINE"), "rj_rx", "rj_fail")

RJ_ReceiveIT(t) == StepReceiveIT(t, "rj_rx", "buff", "rj_wait", "rj_fail")

\* The stores are made whether or not the completion signal came.
RJ_WaitStoresAnyway(t) ==
  /\ pc[t] = "rj_wait"
  /\ \E got \in BOOLEAN :
       /\ timed_wait(got)
       /\ res' = [res EXCEPT ![t] = got]
       /\ outcome' = [outcome EXCEPT ![t] = IF got THEN "ok" ELSE "CompletionTimeout"]
       /\ Goto(t, "rj_st_man")
       /\ \E b \in (IF loc[t].buff = <<>> THEN IdSet ELSE {loc[t].buff}) :
            loc' = [loc EXCEPT ![t].bound = "QSPI_TIMEOUT", ![t].buff = b]
  /\ UNCHANGED <<mutex, hq, chip, mem, idvars, arg, rbuf, wlog, halLog>>

\* A buff the reception has not filled holds what the stack held: some triple,
\* drawn here from IdSet, so that a triple outside IdSet is a mix of two.
RJ_Wait(t) ==
  /\ pc[t] = "rj_wait"
  /\ \E got \in BOOLEAN :
       /\ timed_wait(got)
       /\ res' = [res EXCEPT ![t] = got]
       /\ outcome' = [outcome EXCEPT ![t] = IF got THEN "ok" ELSE "CompletionTimeout"]
       /\ Goto(t, IF got THEN "rj_st_man" ELSE "rj_fail")
       /\ \E b \in (IF got /\ loc[t].buff = <<>> THEN IdSet ELSE {loc[t].buff}) :
            loc' = [loc EXCEPT ![t].bound = "QSPI_TIMEOUT", ![t].buff = b]
  /\ UNCHANGED <<mutex, hq, chip, mem, idvars, arg, rbuf, wlog, halLog>>

\* One of the three stores: manufacturer_ID_ = buff[0]; memory_type_ = buff[1];
\* memory_capacity_ = buff[2];
RJ_StoreField(t, from, i, to) ==
  /\ pc[t] = from
  /\ ident' = [ident EXCEPT ![i] = loc[t].buff[i]]
  /\ Goto(t, to)
  /\ UNCHANGED <<mutex, sem, hq, chip, mem, valid_mem_ID, pimpl, arg, res, loc,
                 rbuf, wlog, halLog, outcome>>

RJ_StoreManufacturer(t) == RJ_StoreField(t, "rj_st_man", 1, "rj_st_type")

RJ_StoreType(t) == RJ_StoreField(t, "rj_st_type", 2, "rj_st_cap")

RJ_StoreCapacity(t) == RJ_StoreField(t, "rj_st_cap", 3, "rj_st_valid")

\* valid_mem_ID = true; result = true;
RJ_StoreValid(t) ==
  /\ pc[t] = "rj_st_valid"
  /\ valid_mem_ID' = TRUE
  /\ Goto(t, "rj_unlock")
  /\ UNCHANGED <<mutex, sem, hq, chip, mem, ident, pimpl, arg, res, loc, rbuf,
                 wlog, halLog, outcome>>

RJ_Fail(t) == StepAbort(t, "rj_fail", "rj_unlock")

RJ_Unlock(t) == StepUnlock(t, "rj_unlock")

-----------------------------------------------------------------------------
(* qspi::get_ID_data *)

\* if (valid_mem_ID) { copy the three fields out; pimpl = new qspi_winbond {}; }
GetIDData(t) ==
  /\ pc[t] = "gid"
  /\ IF valid_mem_ID
       THEN /\ loc' = [loc EXCEPT ![t].buff = ident]
            /\ pimpl' = Min(pimpl + 1, MaxProfiles)
            /\ res' = [res EXCEPT ![t] = TRUE]
       ELSE UNCHANGED <<loc, pimpl, res>>
  /\ outcome' = [outcome EXCEPT ![t] =
                   IF valid_mem_ID THEN "ok" ELSE "IdentificationError"]
  /\ Goto(t, "gid_ret")
  /\ UNCHANGED <<mutex, sem, hq, chip, mem, ident, valid_mem_ID, arg, rbuf, wlog,
                 halLog>>

GID_Return(t) ==
  /\ pc[t] = "gid_ret"
  /\ Return(t)
  /\ UNCHANGED <<mutex, sem, hq, chip, mem, idvars, arg, res, rbuf, wlog, outcome>>

-----------------------------------------------------------------------------
(* qspi::erase *)

ER_Lock(t) == StepLock(t, "er_lock", "er_abort")

ER_Abort(t) == StepAbort(t, "er_abort", "er_we")

\* The lock is given up once the write-enable command has been sent.
ER_WriteEnableUnlocks(t) ==
  /\ pc[t] = "er_we"
  /\ \E ok \in BOOLEAN :
       /\ HAL_QSPI_Command(t, ok, Cmd("WRITE_ENABLE", "NONE", 0, 0, "NONE"))
       /\ Goto(t, IF ok THEN "er_cmd" ELSE "er_fail")
       /\ Because(t, ok, "CommandTimeout")
  /\ unlock(t)
  /\ UNCHANGED <<sem, idvars, arg, res, loc, rbuf, wlog>>

ER_WriteEnable(t) ==
  StepCommand(t, "er_we", Cmd("WRITE_ENABLE", "NONE", 0, 0, "NONE"), "er_cmd", "er_fail")

\* An erase command that never carries an address.
ER_CommandNoAddress(t) ==
  StepCommand(t, "er_cmd", Cmd(arg[t].which, "NONE", arg[t].address, 0, "NONE"),
              "er_poll", "er_fail")

ER_Command(t) ==
  StepCommand(t, "er_cmd", Cmd(arg[t].which,
                  IF arg[t].which = "CHIP_ERASE" THEN "NONE" ELSE "1_LINE",
                  arg[t].address, 0, "NONE"),
              "er_poll", "er_fail")

ER_AutoPolling(t) == StepAutoPolling(t, "er_poll", "er_wait", "er_fail")

\* A completion wait with the sector/block bound whatever the granularity.
ER_WaitOneBound(t) ==
  StepWait(t, "er_wait", "QSPI_ERASE_TIMEOUT", "er_unlock", "er_fail")

ER_Wait(t) ==
  StepWait(t, "er_wait",
           IF arg[t].which = "CHIP_ERASE" THEN "QSPI_CHIP_ERASE_TIMEOUT"
                                          ELSE "QSPI_ERASE_TIMEOUT",
           "er_unlock", "er_fail")

\* A failure path that returns from inside the locked block.
ER_FailReturns(t) ==
  /\ pc[t] = "er_fail"
  /\ hq' = HqReady
  /\ Return(t)
  /\ UNCHANGED <<mutex, sem, chip, mem, idvars, arg, res, rbuf, wlog, outcome>>

ER_Fail(t) == StepAbort(t, "er_fail", "er_unlock")

ER_Unlock(t) == StepUnlock(t, "er_unlock")

-----------------------------------------------------------------------------
(* qspi_winbond::mode_quad *)

MQ_Lock(t) == StepLock(t, "mq_lock", "mq_rd")

MQ_ReadSR2(t) ==
  StepCommand(t, "mq_rd", Cmd("READ_STATUS_REGISTER_2", "NONE", 0, 1, "1_LINE"),
              "mq_recv", "mq_unlock")

\* The status register is rewritten whatever the quad-enable bit reads.
MQ_ReceiveNoTest(t) ==
  /\ pc[t] = "mq_recv"
  /\ \E ok \in BOOLEAN :
       /\ HAL_QSPI_Receive(t, ok)
       /\ loc' = IF ok THEN [loc EXCEPT ![t].datareg = chip.sr2] ELSE loc
       /\ Goto(t, IF ok THEN "mq_vwe" ELSE "mq_unlock")
       /\ Because(t, ok, "CommandTimeout")
  /\ UNCHANGED <<mutex, sem, idvars, arg, res, rbuf, wlog>>

\* Receive datareg; if ((datareg & 2) == 0) go on, else result = true.
MQ_Receive(t) ==
  /\ pc[t] = "mq_recv"
  /\ \E ok \in BOOLEAN :
       /\ HAL_QSPI_Receive(t, ok)
       /\ IF ok
            THEN /\ loc' = [loc EXCEPT ![t].datareg = chip.sr2]
                 /\ IF And2(chip.sr2) = 0
                      THEN Goto(t, "mq_vwe") /\ UNCHANGED <<res, outcome>>
                      ELSE /\ Goto(t, "mq_unlock")
                           /\ res' = [res EXCEPT ![t] = TRUE]
                           /\ outcome' = [outcome EXCEPT ![t] = "ok"]
            ELSE /\ Goto(t, "mq_unlock")
                 /\ Because(t, FALSE, "CommandTimeout")
                 /\ UNCHANGED <<loc, res>>
  /\ UNCHANGED <<mutex, sem, idvars, arg, rbuf, wlog>>

MQ_VolatileWE(t) ==
  StepCommand(t, "mq_vwe", Cmd("VOLATILE_SR_WRITE_ENABLE", "NONE", 0, 1, "NONE"),
              "mq_wsr", "mq_unlock")

MQ_WriteSR2(t) ==
  StepCommand(t, "mq_wsr", Cmd("WRITE_STATUS_REGISTER_2", "NONE", 0, 1, "1_LINE"),
              "mq_tx", "mq_unlock")

\* datareg |= 2; Transmit datareg; result = true.
MQ_Transmit(t) ==
  /\ pc[t] = "mq_tx"
  /\ \E ok \in BOOLEAN :
       /\ HAL_QSPI_Transmit(t, ok, Or2(loc[t].datareg), 0, 0)
       /\ res' = [res EXCEPT ![t] = ok]
       /\ outcome' = [outcome EXCEPT ![t] = IF ok THEN "ok" ELSE "CommandTimeout"]
  /\ loc' = [loc EXCEPT ![t].datareg = Or2(@)]
  /\ Goto(t, "mq_unlock")
  /\ UNCHANGED <<mutex, sem, idvars, arg, rbuf, wlog>>

MQ_Unlock(t) == StepUnlock(t, "mq_unlock")

-----------------------------------------------------------------------------
(* qspi_winbond::memory_mapped *)

MM_Abort(t) == StepAbort(t, "mm_abort", "mm_lock")

MM_Lock(t) == StepLock(t, "mm_lock", "mm_map")

MM_MemoryMapped(t) ==
  /\ pc[t] = "mm_map"
  /\ \E ok \in BOOLEAN :
       /\ HAL_QSPI_MemoryMapped(t, ok, Cmd("FAST_READ_QUAD_OUT", "1_LINE", 0, 0,
                                           "4_LINES"))
       /\ res' = [res EXCEPT ![t] = ok]
       /\ outcome' = [outcome EXCEPT ![t] = IF ok THEN "ok" ELSE "CommandTimeout"]
  /\ Goto(t, "mm_unlock")
  /\ UNCHANGED <<mutex, sem, idvars, arg, loc, rbuf, wlog>>

MM_Unlock(t) == StepUnlock(t, "mm_unlock")

-----------------------------------------------------------------------------
(* qspi_winbond::read *)

RD_Lock(t) == StepLock(t, "rd_lock", "rd_abort")

RD_Abort(t) == StepAbort(t, "rd_abort", "rd_cmd")

RD_Command(t) ==
  StepCommand(t, "rd_cmd",
              Cmd("FAST_READ_QUAD_OUT", "1_LINE", arg[t].address, arg[t].count,
                  "4_LINES"),
              "rd_rx", "rd_fail")

RD_ReceiveIT(t) == StepReceiveIT(t, "rd_rx", "rbuf", "rd_wait", "rd_fail")

RD_Wait(t) == StepWait(t, "rd_wait", "QSPI_TIMEOUT", "rd_unlock", "rd_fail")

RD_Fail(t) == StepAbort(t, "rd_fail", "rd_unlock")

RD_Unlock(t) == StepUnlock(t, "rd_unlock")

-----------------------------------------------------------------------------
(* qspi_winbond::page_write *)

PW_Lock(t) == StepLock(t, "pw_lock", "pw_we")

PW_WriteEnable(t) ==
  StepCommand(t, "pw_we", Cmd("WRITE_ENABLE", "NONE", 0, 0, "NONE"),
              "pw_cmd", "pw_fail")

PW_Command(t) ==
  StepCommand(t, "pw_cmd",
              Cmd("QUAD_PAGE_PROGRAM", "1_LINE", loc[t].address,
                  loc[t].in_block_count, "4_LINES"),
              "pw_tx", "pw_fail")

\* The result of the transmit is not tested: the polling is started anyway.
PW_TransmitUnchecked(t) ==
  /\ pc[t] = "pw_tx"
  /\ \E ok \in BOOLEAN :
       /\ HAL_QSPI_Transmit(t, ok, 0, arg[t].seed, loc[t].off)
       /\ Goto(t, "pw_poll")
       /\ Because(t, ok, "CommandTimeout")
  /\ UNCHANGED <<mutex, sem, idvars, arg, res, loc, rbuf, wlog>>

PW_Transmit(t) ==
  /\ pc[t] = "pw_tx"
  /\ \E ok \in BOOLEAN :
       /\ HAL_QSPI_Transmit(t, ok, 0, arg[t].seed, loc[t].off)
       /\ Goto(t, IF ok THEN "pw_poll" ELSE "pw_fail")
       /\ Because(t, ok, "CommandTimeout")
  /\ UNCHANGED <<mutex, sem, idvars, arg, res, loc, rbuf, wlog>>

PW_AutoPolling(t) == StepAutoPolling(t, "pw_poll", "pw_wait", "pw_fail")

PW_Wait(t) == StepWait(t, "pw_wait", "QSPI_TIMEOUT", "pw_unlock", "pw_fail")

PW_Fail(t) == StepAbort(t, "pw_fail", "pw_unlock")

PW_Unlock(t) == StepUnlock(t, "pw_unlock")

-----------------------------------------------------------------------------
(* qspi::write *)

\* A split that ignores where the address lies in its page.
in_block_countUnaligned(address, count) == Min(count, PageSize)

\* The length of the next chunk, as the loop body computes it.
in_block_count(address, count) ==
  LET n == PageSize - (address % PageSize)
  IN IF n > count THEN count
     ELSE IF n = 0 THEN (IF count > PageSize THEN PageSize ELSE count)
     ELSE n

\* HAL_QSPI_Abort (hqspi_); before the loop, outside any lock.
W_Abort(t) == StepAbort(t, "w_abort", "w_loop")

\* The loop body up to the call of page_write.
W_Chunk(t) ==
  /\ pc[t] = "w_loop"
  /\ LET n == in_block_count(loc[t].address, loc[t].count)
     IN /\ loc' = [loc EXCEPT ![t].in_block_count = n]
        /\ wlog' = [wlog EXCEPT ![t] =
                      Append(@, [address |-> loc[t].address, off |-> loc[t].off,
                                 count |-> n, done |-> FALSE, ok |-> FALSE])]
  /\ res' = [res EXCEPT ![t] = FALSE]
  /\ halLog' = [halLog EXCEPT ![t] = <<>>]
  /\ Goto(t, "disp")
  /\ UNCHANGED <<mutex, sem, hq, chip, mem, idvars, arg, rbuf, outcome>>

\* A loop without the break: the next chunk is issued after a failed one.
W_AfterNoBreak(t) ==
  /\ pc[t] = "w_after"
  /\ wlog' = [wlog EXCEPT ![t][Len(wlog[t])].ok = res[t],
                          ![t][Len(wlog[t])].done = TRUE]
  /\ loc' = [loc EXCEPT
               ![t].address = @ + loc[t].in_block_count,
               ![t].off = @ + loc[t].in_block_count,
               ![t].count = @ - loc[t].in_block_count]
  /\ Goto(t, IF loc'[t].count # 0 THEN "w_loop" ELSE "w_ret")
  /\ UNCHANGED <<mutex, sem, hq, chip, mem, idvars, arg, res, rbuf, halLog,
                 outcome>>

\* A loop that takes the chunk off the count but leaves the address where it was.
W_AfterSameAddress(t) ==
  /\ pc[t] = "w_after"
  /\ wlog' = [wlog EXCEPT ![t][Len(wlog[t])].ok = res[t],
                          ![t][Len(wlog[t])].done = TRUE]
  /\ IF res[t] = FALSE
       THEN Goto(t, "w_ret") /\ UNCHANGED loc
       ELSE /\ loc' = [loc EXCEPT
                         ![t].off = @ + loc[t].in_block_count,
                         ![t].count = @ - loc[t].in_block_count]
            /\ Goto(t, IF loc'[t].count # 0 THEN "w_loop" ELSE "w_ret")
  /\ UNCHANGED <<mutex, sem, hq, chip, mem, idvars, arg, res, rbuf, halLog,
                 outcome>>

\* After page_write: break with result = false, or advance and test count.
W_After(t) ==
  /\ pc[t] = "w_after"
  /\ wlog' = [wlog EXCEPT ![t][Len(wlog[t])].ok = res[t],
                          ![t][Len(wlog[t])].done = TRUE]
  /\ IF res[t] = FALSE
       THEN Goto(t, "w_ret") /\ UNCHANGED loc
       ELSE /\ loc' = [loc EXCEPT
                         ![t].address = @ + loc[t].in_block_count,
                         ![t].off = @ + loc[t].in_block_count,
                         ![t].count = @ - loc[t].in_block_count]
            /\ Goto(t, IF loc'[t].count # 0 THEN "w_loop" ELSE "w_ret")
  /\ UNCHANGED <<mutex, sem, hq, chip, mem, idvars, arg, res, rbuf, halLog,
                 outcome>>

\* return result;
W_Return(t) ==
  /\ pc[t] = "w_ret"
  /\ Return(t)
  /\ wlog' = [wlog EXCEPT ![t] = <<>>]
  /\ UNCHANGED <<mutex, sem, hq, chip, mem, idvars, arg, res, rbuf, outcome>>

-----------------------------------------------------------------------------
(* The forwarding members of qspi (mode_quad, memory_mapped, read,           *)
(* page_write): they fail when no profile is selected, else call the profile. *)

ImplEntry(t) ==
  CASE arg[t].op = "mode_quad" -> "mq_lock"
    [] arg[t].op = "memory_mapped" -> "mm_abort"
    [] arg[t].op = "read" -> "rd_lock"
    [] OTHER -> "pw_lock"

Dispatch(t) ==
  /\ pc[t] = "disp"
  /\ IF pimpl = 0 THEN Return(t)
                  ELSE Goto(t, ImplEntry(t)) /\ UNCHANGED <<loc, halLog>>
  /\ Because(t, pimpl # 0, "IdentificationError")
  /\ UNCHANGED <<mutex, sem, hq, chip, mem, idvars, arg, res, rbuf, wlog>>

-----------------------------------------------------------------------------
(* Calls: a thread that is in no operation calls one. *)

\* op, address, count, which, seed: the call.  after: the successful call it
\* follows up ("write": a read-back of the range just written from buffer `seed';
\* "erase": a read of a range just erased), pre: the range was erased before
\* that write.  junk: what the caller's read buffer holds before the read.
NoArg ==
  [op |-> "none", address |-> 0, count |-> 0, which |-> "NONE", seed |-> 0,
   after |-> "none", pre |-> FALSE, junk |-> 0]

\* The tracked addresses in [address, address + count).
Range(address, count) ==
  {a \in DOMAIN mem : address <= a /\ a < address + count}

Erased(address, count) == \A a \in Range(address, count) : mem[a] = ERASED

Entry(op) ==
  CASE op = "read_JEDEC_ID" -> "rj_lock"
    [] op = "get_ID_data" -> "gid"
    [] op = "erase" -> "er_lock"
    [] op = "write" -> "w_abort"
    [] OTHER -> "disp"

\* `result' is false on entry of every function but write.
Call(t, op, address, count, which, seed, junk) ==
  /\ pc[t] = "idle"
  /\ arg' = [arg EXCEPT ![t] =
               [op |-> op, address |-> address, count |-> count, which |-> which,
                seed |-> seed,
                after |-> IF op = "read" /\ seed # 0 THEN arg[t].op ELSE "none",
                pre |-> IF op = "read" /\ seed # 0 THEN arg[t].pre
                                                   ELSE Erased(address, count),
                junk |-> junk]]
  /\ res' = [res EXCEPT ![t] = (op = "write")]
  /\ loc' = [loc EXCEPT ![t] =
               [NoLoc EXCEPT !.address = address, !.count = count]]
  /\ rbuf' = [rbuf EXCEPT ![t] =
                IF op = "read" THEN [a \in Range(address, count) |-> junk]
                               ELSE rbuf[t]]
  /\ wlog' = [wlog EXCEPT ![t] = <<>>]
  /\ halLog' = [halLog EXCEPT ![t] = <<>>]
  /\ outcome' = [outcome EXCEPT ![t] = "none"]
  /\ Goto(t, Entry(op))
  /\ UNCHANGED <<mutex, sem, hq, chip, mem, idvars>>

CallReadJedecID(t) == Call(t, "read_JEDEC_ID", 0, 0, "NONE", 0, 0)

CallGetIDData(t) == Call(t, "get_ID_data", 0, 0, "NONE", 0, 0)

CallModeQuad(t) == Call(t, "mode_quad", 0, 0, "NONE", 0, 0)

CallMemoryMapped(t) == Call(t, "memory_mapped", 0, 0, "NONE", 0, 0)

CallRead(t, A, N, J) ==
  \E address \in A, count \in N, junk \in J :
    Call(t, "read", address, count, "NONE", 0, junk)

\* Flash is written where it is blank: the caller erases before it writes anew.
CallWrite(t, A, N, S) ==
  \E address \in A, count \in N, seed \in S :
    /\ \A a \in DOMAIN mem : mem[a] = ERASED
    /\ Call(t, "write", address, count, "NONE", seed, 0)

CallErase(t, A, W) ==
  \E address \in A, which \in W : Call(t, "erase", address, 0, which, 0, 0)

\* The test's write_sector / read_sector / memcmp: after a successful write the
\* caller reads the same range back.
CallReadBack(t, J) ==
  /\ arg[t].op = "write" /\ res[t]
  /\ \E junk \in J :
       Call(t, "read", arg[t].address, arg[t].count, "NONE", arg[t].seed, junk)

\* After a successful erase the caller reads n bytes of the erased unit.
CallReadErased(t, N, J) ==
  /\ arg[t].op = "erase" /\ res[t]
  /\ \E a \in DOMAIN mem, n \in N, junk \in J :
       /\ InErase(a, arg[t].address, arg[t].which)
       /\ \A x \in Range(a, n) : InErase(x, arg[t].address, arg[t].which)
       /\ Call(t, "read", a, n, "NONE", 1, junk)

-----------------------------------------------------------------------------
(* The environment: the chip and the interrupt call-backs. *)

\* The chip finishes its program or erase cycle: WIP and WEL clear.
DevDone ==
  /\ chip.wip
  /\ chip' = [chip EXCEPT !.wip = FALSE, !.wel = FALSE]
  /\ UNCHANGED <<mutex, sem, hq, mem, idvars, pc, arg, res, loc, rbuf, wlog,
                 halLog, outcome>>

\* HAL_QSPI_RxCpltCallback -> cb_event: the reception has filled its buffer.
\* The three-byte buff of read_JEDEC_ID exists only while that call runs.
RxCplt ==
  /\ hq.State = "BUSY_INDIRECT_RX"
  /\ LET t == hq.owner
         data == DevRead(mem, hq.cmd.Address, hq.cmd.NbData)
     IN /\ rbuf' = IF hq.dst = "rbuf"
                     THEN [rbuf EXCEPT ![t] =
                             [a \in DOMAIN rbuf[t] |->
                                IF a \in DOMAIN data THEN data[a] ELSE rbuf[t][a]]]
                     ELSE rbuf
        /\ loc' = IF hq.dst = "buff" /\ pc[t] \in
                      {"rj_wait", "rj_st_man", "rj_st_type", "rj_st_cap",
                       "rj_st_valid", "rj_fail", "rj_unlock"}
                    THEN [loc EXCEPT ![t].buff = chip.id]
                    ELSE loc
  /\ hq' = HqReady
  /\ post
  /\ UNCHANGED <<mutex, chip, mem, idvars, pc, arg, res, wlog, halLog, outcome>>

\* HAL_QSPI_StatusMatchCallback -> cb_event: the polled WIP bit read 0.
StatusMatch ==
  /\ hq.State = "BUSY_AUTO_POLLING"
  /\ ~chip.wip
  /\ hq' = HqReady
  /\ post
  /\ UNCHANGED <<mutex, chip, mem, idvars, pc, arg, res, loc, rbuf, wlog, halLog,
                 outcome>>

-----------------------------------------------------------------------------
(* Specifications. *)

InitCommon ==
  /\ mutex = 0
  /\ sem = 0
  /\ hq = HqReady
  /\ chip \in [wel : {FALSE}, vsr : {FALSE}, wip : {FALSE}, sr2 : {0, 64, 66},
               id : IdSet]
  /\ ident = <<0, 0, 0>>
  /\ valid_mem_ID = FALSE
  /\ pimpl = 0
  /\ pc = [t \in Threads |-> "idle"]
  /\ arg = [t \in Threads |-> NoArg]
  /\ res = [t \in Threads |-> FALSE]
  /\ loc = [t \in Threads |-> NoLoc]
  /\ rbuf = [t \in Threads |-> <<>>]
  /\ wlog = [t \in Threads |-> <<>>]
  /\ halLog = [t \in Threads |-> <<>>]
  /\ outcome = [t \in Threads |-> "none"]

\* The statements of each function, for thread t.
DriverJedec(t) ==
  \/ RJ_Lock(t) \/ RJ_Abort(t) \/ RJ_Command(t) \/ RJ_ReceiveIT(t) \/ RJ_Wait(t)
  \/ RJ_StoreManufacturer(t) \/ RJ_StoreType(t) \/ RJ_StoreCapacity(t)
  \/ RJ_StoreValid(t)
  \/ RJ_Fail(t) \/ RJ_Unlock(t)
  \/ GetIDData(t) \/ GID_Return(t)

DriverErase(t) ==
  \/ ER_Lock(t) \/ ER_Abort(t) \/ ER_WriteEnable(t) \/ ER_Command(t)
  \/ ER_AutoPolling(t) \/ ER_Wait(t) \/ ER_Fail(t) \/ ER_Unlock(t)

DriverQuad(t) ==
  \/ MQ_Lock(t) \/ MQ_ReadSR2(t) \/ MQ_Receive(t) \/ MQ_VolatileWE(t)
  \/ MQ_WriteSR2(t) \/ MQ_Transmit(t) \/ MQ_Unlock(t)

DriverMapped(t) ==
  \/ MM_Abort(t) \/ MM_Lock(t) \/ MM_MemoryMapped(t) \/ MM_Unlock(t)

DriverRead(t) ==
  \/ RD_Lock(t) \/ RD_Abort(t) \/ RD_Command(t) \/ RD_ReceiveIT(t) \/ RD_Wait(t)
  \/ RD_Fail(t) \/ RD_Unlock(t)

DriverWrite(t) ==
  \/ PW_Lock(t) \/ PW_WriteEnable(t) \/ PW_Command(t) \/ PW_Transmit(t)
  \/ PW_AutoPolling(t) \/ PW_Wait(t) \/ PW_Fail(t) \/ PW_Unlock(t)
  \/ W_Abort(t) \/ W_Chunk(t) \/ W_After(t) \/ W_Return(t)

Driver(t) ==
  \/ DriverJedec(t) \/ DriverErase(t) \/ DriverQuad(t) \/ DriverMapped(t)
  \/ DriverRead(t) \/ DriverWrite(t) \/ Dispatch(t)

Env == DevDone \/ RxCplt \/ StatusMatch

\* A Winbond chip with the quad-enable bit clear.
Winbond == chip.sr2 = 0 /\ chip.id = <<239, 64, 24>>

\* initialize (): the identification is read once, the profile selected once.
CallsInit(t) ==
  \/ CallReadJedecID(t) /\ ~valid_mem_ID
  \/ CallGetIDData(t) /\ pimpl = 0

-----------------------------------------------------------------------------
(* Spec: two concurrent callers; the flash array is not tracked.  Thread 1  *)
(* calls every operation, thread 2 those that contend with it.              *)

Init == InitCommon /\ Winbond /\ mem = <<>>

Calls(t) ==
  \/ CallReadJedecID(t) /\ t = 1
  \/ CallGetIDData(t) /\ t = 1 /\ pimpl = 0
  \/ CallModeQuad(t) /\ t = 1
  \/ CallMemoryMapped(t)
  \/ CallRead(t, {0}, {PageSize + 1}, {0})
  \/ CallWrite(t, {240}, {32}, {1})
  \/ CallErase(t, {0}, {"SECTOR_ERASE"}) /\ t = 1

Next == (\E t \in Threads : Calls(t) \/ Driver(t)) \/ Env

Spec == Init /\ [][Next]_vars

\* Two callers contending for the device: identification and erase on one
\* thread, reads from both, and memory_mapped, whose leading abort takes no lock.
NextLive ==
  \/ CallsInit(1)
  \/ \E t \in Threads : CallRead(t, {0}, {1}, {0})
  \/ CallMemoryMapped(2)
  \/ CallErase(1, {0}, {"SECTOR_ERASE"})
  \/ DriverJedec(1) \/ DriverErase(1)
  \/ \E t \in Threads : DriverRead(t) \/ Dispatch(t)
  \/ DriverMapped(2)
  \/ Env

\* Every thread that is inside an operation keeps being scheduled; nothing is
\* asked of the interrupts, which may never come.
FairSpec ==
  /\ Init /\ [][NextLive]_vars
  /\ \A t \in Threads : WF_vars(Driver(t))

-----------------------------------------------------------------------------
(* SpecWrite: one caller writing ranges over NPages pages and beyond, the   *)
(* flash tracked around the page boundaries.                                *)

CellsW == {p * PageSize + d : p \in 0..NPages, d \in {0, 15, 255}}

WriteAddrs == {0, 240, 255, 256}

WriteCounts == {0, 1, 16, 32, 256, 257, NPages * PageSize, NPages * PageSize + 1}

InitWrite == InitCommon /\ Winbond /\ mem = [a \in CellsW |-> ERASED]

NextWrite ==
  \/ CallsInit(1)
  \/ CallWrite(1, WriteAddrs, WriteCounts, {1})
  \/ CallErase(1, {0}, {"CHIP_ERASE"})
  \/ DriverJedec(1) \/ DriverErase(1) \/ DriverWrite(1) \/ Dispatch(1)
  \/ Env

SpecWrite == InitWrite /\ [][NextWrite]_vars

\* The writing thread keeps being scheduled while it is inside a call; nothing
\* is asked of the interrupts, which may never come.
FairSpecWrite ==
  /\ InitWrite /\ [][NextWrite]_vars
  /\ WF_vars(DriverWrite(1) \/ Dispatch(1))

-----------------------------------------------------------------------------
(* SpecSeq: one caller, as the test does: identify, erase, write, read back. *)
(* The flash is tracked around the page and the erase-unit boundaries.       *)

CellsS == {0, 255, 256, 4095, 4096, 32767, 32768, 65535, 65536}

InitSeq == InitCommon /\ Winbond /\ mem = [a \in CellsS |-> ERASED]

NextSeq ==
  \/ CallsInit(1)
  \/ CallWrite(1, {240}, {32}, {1})
  \/ CallReadBack(1, {0, ERASED})
  \/ CallErase(1, {0, 4096}, EraseOps)
  \/ CallReadErased(1, {1, PageSize + 1}, {0})
  \/ DriverJedec(1) \/ DriverErase(1) \/ DriverRead(1) \/ DriverWrite(1)
  \/ Dispatch(1)
  \/ Env

SpecSeq == InitSeq /\ [][NextSeq]_vars

-----------------------------------------------------------------------------
(* SpecQuad: one caller entering quad mode and memory-mapped mode, on chips  *)
(* with and without the quad-enable bit set; the flash array is not tracked. *)

InitQuad == InitCommon /\ chip.id = <<239, 64, 24>> /\ mem = <<>>

NextQuad ==
  \/ CallsInit(1)
  \/ CallModeQuad(1)
  \/ CallMemoryMapped(1)
  \/ CallErase(1, {0}, {"SECTOR_ERASE"})
  \/ DriverJedec(1) \/ DriverQuad(1) \/ DriverMapped(1) \/ DriverErase(1)
  \/ Dispatch(1)
  \/ Env

SpecQuad == InitQuad /\ [][NextQuad]_vars

-----------------------------------------------------------------------------
(* SpecInit: one identification, on a Winbond or on another vendor's chip,   *)
(* and identity queries from both threads, repeated.                         *)

InitInit == InitCommon /\ chip.sr2 = 0 /\ mem = <<>>

NextInit ==
  \/ CallReadJedecID(1) /\ ~valid_mem_ID
  \/ \E t \in Threads : CallGetIDData(t)
  \/ \E t \in Threads : DriverJedec(t)
  \/ RxCplt

SpecInit == InitInit /\ [][NextInit]_vars

-----------------------------------------------------------------------------
(* SpecId: both threads identify again and again, thread 2 also queries the *)
(* identity meanwhile.                                                       *)

NextId ==
  \/ \E t \in Threads : CallReadJedecID(t)
  \/ CallGetIDData(2)
  \/ \E t \in Threads : DriverJedec(t)
  \/ RxCplt

SpecId == InitInit /\ [][NextId]_vars

-----------------------------------------------------------------------------
(* Properties. *)

\* Thread t makes a HAL call in this step.
HalCallBy(t) == Len(halLog'[t]) = Len(halLog[t]) + 1

\* The statements between a successful timed_lock and the unlock.
LockedPcs ==
  {"rj_abort", "rj_cmd", "rj_rx", "rj_wait", "rj_st_man", "rj_st_type",
   "rj_st_cap", "rj_st_valid", "rj_fail", "rj_unlock",
   "er_abort", "er_we", "er_cmd", "er_poll", "er_wait", "er_fail", "er_unlock",
   "mq_rd", "mq_recv", "mq_vwe", "mq_wsr", "mq_tx", "mq_unlock",
   "mm_map", "mm_unlock",
   "rd_abort", "rd_cmd", "rd_rx", "rd_wait", "rd_fail", "rd_unlock",
   "pw_we", "pw_cmd", "pw_tx", "pw_poll", "pw_wait", "pw_fail", "pw_unlock"}

\* The unlock statements: the function's outcome is decided.
UnlockPcs ==
  {"rj_unlock", "er_unlock", "mq_unlock", "mm_unlock", "rd_unlock", "pw_unlock"}

Last(q) == q[Len(q)]

\* C1: every HAL call (command, transmit, receive, auto-poll start, memory-map
\* configuration, abort) is made by the thread that holds the mutex, and never
\* while another thread's command is in flight.
C1_Serialized ==
  [][\A t \in Threads : HalCallBy(t) => mutex = t /\ hq.owner \in {0, t}]_vars

\* C2: a thread outside the locked part of a function (returned, or not yet
\* locked) does not hold the mutex, whatever the exit path was; with no thread
\* inside a locked part the mutex is free.
C2_LockReleased ==
  /\ \A t \in Threads : pc[t] \notin LockedPcs => mutex # t
  /\ (\A t \in Threads : pc[t] \notin LockedPcs) => mutex = 0

\* An erase has returned after its completion wait timed out; the mutex is free.
C2_Witness ==
  \E t \in Threads :
    /\ pc[t] = "idle" /\ arg[t].op = "erase" /\ ~res[t]
    /\ outcome[t] = "CompletionTimeout"
    /\ mutex = 0

\* C3: a function that failed after it took the lock has made HAL_QSPI_Abort
\* its last HAL call when it comes to unlock, mode_quad and memory_mapped
\* included.
C3_AbortOnFailure ==
  \A t \in Threads :
    pc[t] \in UnlockPcs /\ ~res[t] =>
      halLog[t] # <<>> /\ Last(halLog[t]).fn = "Abort"

C5_RoundTrip ==
  \A t \in Threads :
    /\ pc[t] = "idle" /\ arg[t].op = "read" /\ res[t]
    /\ arg[t].after = "write" /\ arg[t].pre /\ pimpl # 0
    => \A a \in DOMAIN rbuf[t] :
         rbuf[t][a] = BufByte(arg[t].seed, a - arg[t].address)

\* The operations that need the identified chip's profile, and erase.
ProfileOps == {"mode_quad", "memory_mapped", "read", "write", "erase"}

\* C6: while no profile is selected, a call of enterQuadMode,
\* enterMemoryMapped, read, write or erase makes no HAL call and returns false.
C6_NoHardwareBeforeInit ==
  \A t \in Threads :
    pimpl = 0 /\ arg[t].op \in ProfileOps =>
      /\ halLog[t] = <<>>
      /\ pc[t] = "idle" => ~res[t]

\* C7: no chunk follows a failed chunk: every chunk but the last one issued
\* has succeeded; write returns true exactly when the last chunk, hence
\* every chunk, has succeeded; and write sends no erase command, so that what
\* the earlier chunks programmed is not rolled back.
C7_StopsAtFirstFailure ==
  \A t \in Threads :
    LET q == wlog[t] IN
    /\ \A i \in 1..(Len(q) - 1) : q[i].done /\ q[i].ok
    /\ pc[t] = "w_ret" => Last(q).done
    /\ pc[t] = "w_ret" => (res[t] <=> \A i \in 1..Len(q) : q[i].ok = TRUE)
    /\ pc[t] = "w_ret" /\ ~res[t] => Last(q).ok = FALSE
    /\ arg[t].op = "write" =>
         \A i \in 1..Len(halLog[t]) : halLog[t][i].Instruction \notin EraseOps

\* A write has failed at its second chunk, after a chunk that succeeded and
\* with bytes of the buffer still to write.
C7_Witness ==
  /\ pc[1] = "w_ret" /\ ~res[1]
  /\ Len(wlog[1]) = 2 /\ wlog[1][1].ok = TRUE /\ wlog[1][2].ok = FALSE
  /\ arg[1].count > wlog[1][1].count + wlog[1][2].count

\* C8: a successful read of a range inside the unit a successful erase has
\* just erased returns only 0xFF.
C8_EraseThenRead ==
  \A t \in Threads :
    pc[t] = "idle" /\ arg[t].op = "read" /\ res[t] /\ arg[t].after = "erase"
    => \A a \in DOMAIN rbuf[t] : rbuf[t][a] = ERASED

\* C9: mode_quad is at its write sequence (volatile write enable, write
\* status register 2, transmit) only with the quad-enable bit clear; a call
\* that read the status register and made no further HAL call has returned
\* true on a set bit; and after a successful call the bit is set, so that a
\* second call finds it set and leaves the chip as the first call left it.
C9_QuadIdempotent ==
  \A t \in Threads :
    /\ pc[t] \in {"mq_vwe", "mq_wsr", "mq_tx"} => And2(chip.sr2) = 0
    /\ pc[t] = "mq_unlock" /\ Len(halLog[t]) = 2 /\ Last(halLog[t]).ok =>
         res[t] /\ And2(loc[t].datareg) = 2
    /\ pc[t] = "mq_unlock" /\ And2(chip.sr2) = 2 /\ Len(halLog[t]) >= 2
         /\ halLog[t][2].ok => res[t]
    /\ pc[t] \in {"mq_unlock", "idle"} /\ arg[t].op = "mode_quad" /\ res[t] =>
         And2(chip.sr2) = 2

\* A second call: the bit was clear at first (status register 2 reads 2 only
\* after mode_quad has set it), and this call returned true after the read alone.
C9_Witness ==
  /\ pc[1] = "mq_unlock" /\ res[1]
  /\ chip.sr2 = 2
  /\ Len(halLog[1]) = 2

\* C10: under FairSpec every invoked operation returns; an operation whose
\* completion wait has timed out reaches its unlock with the command unit
\* aborted to idle, and returns without the mutex; and a held mutex is always
\* released, so that a later caller can acquire it.
C10_NoDeadlock ==
  /\ \A t \in Threads : (pc[t] # "idle") ~> (pc[t] = "idle")
  /\ (mutex # 0) ~> (mutex = 0)
  /\ [](\A t \in Threads :
          /\ pc[t] \in UnlockPcs /\ outcome[t] = "CompletionTimeout" =>
               hq.State = "READY" /\ Last(halLog[t]).fn = "Abort"
          /\ pc[t] = "idle" => mutex # t)

\* A read has returned after its completion wait timed out, while the other
\* thread is inside an operation of its own.
C10_Witness ==
  /\ pc[1] = "idle" /\ arg[1].op = "read" /\ outcome[1] = "CompletionTimeout"
  /\ mutex # 1
  /\ pc[2] # "idle"

\* The timed_lock statements.
LockPcs == {"rj_lock", "er_lock", "mq_lock", "mm_lock", "rd_lock", "pw_lock"}

\* C11: a function that leaves its timed_lock with LockTimeout has made no HAL
\* call, abort included, before it.
C11_NoHardwareOnLockTimeout ==
  [][\A t \in Threads :
       pc[t] \in LockPcs /\ pc'[t] # pc[t] /\ outcome'[t] = "LockTimeout"
       => halLog[t] = <<>>]_vars

\* C12: with one successful identification, the profile is constructed at most
\* once, however often the identity is queried.
C12_ProfileOnce == pimpl <= 1

\* The stores of the identity in read_JEDEC_ID.
StorePcs == {"rj_st_man", "rj_st_type", "rj_st_cap", "rj_st_valid"}

\* C13: the three identity fields and the valid flag change only in the
\* stores of a read_JEDEC_ID whose completion wait succeeded, which returns
\* true; a read_JEDEC_ID that failed (lock timeout, command or receive start
\* rejected, completion timeout) makes no store and returns false.
C13_FailureKeepsIdentity ==
  /\ [][ident' # ident \/ valid_mem_ID' # valid_mem_ID =>
          \E t \in Threads : /\ pc[t] \in StorePcs /\ pc'[t] # pc[t]
                             /\ arg[t].op = "read_JEDEC_ID"]_vars
  /\ [](\A t \in Threads :
          /\ pc[t] \in StorePcs => res[t] /\ outcome[t] = "ok"
          /\ arg[t].op = "read_JEDEC_ID" /\ outcome[t] # "ok" => ~res[t]
          /\ arg[t].op = "read_JEDEC_ID" /\ pc[t] \in {"rj_unlock", "idle"} =>
               (res[t] <=> outcome[t] = "ok"))

\* A repeated identification fails on its completion wait, and one fails on
\* its lock, with the identity of an earlier one stored and valid.
C13_Witness ==
  /\ valid_mem_ID /\ ident \in IdSet
  /\ pc[1] = "rj_unlock" /\ ~res[1] /\ outcome[1] = "CompletionTimeout"
  /\ pc[2] = "idle" /\ arg[2].op = "read_JEDEC_ID" /\ outcome[2] = "LockTimeout"

\* The manufacturers a profile exists for: Winbond, the class qspi_winbond.
KnownVendors == {239}

\* C14: a profile exists only with a valid identity of a known manufacturer,
\* and an identity query that finds the identity unset or the manufacturer
\* unknown returns false with IdentificationError.
C14_ProfileOnlyForKnownVendor ==
  /\ pimpl # 0 => valid_mem_ID /\ ident[1] \in KnownVendors
  /\ \A t \in Threads :
       pc[t] = "gid_ret" /\ (~valid_mem_ID \/ ident[1] \notin KnownVendors)
       => ~res[t] /\ outcome[t] = "IdentificationError"

\* The statements that start an asynchronous issue.
IssuePcs == {"rj_rx", "rd_rx", "er_poll", "pw_poll"}

\* C15: whenever a function is about to start an asynchronous issue
\* (HAL_QSPI_Receive_IT, HAL_QSPI_AutoPolling_IT) the semaphore holds no post,
\* so that its completion wait can only take the post of its own command.
C15_NoStalePost ==
  \A t \in Threads : pc[t] \in IssuePcs /\ mutex = t => sem = 0

\* The statements of page_write and erase between two of their commands.
BetweenCommandsPcs == {"pw_cmd", "pw_tx", "pw_poll", "er_cmd", "er_poll"}

C17_AbortBeforeFirstCommand ==
  \A t \in Threads :
    pc[t] \in LockedPcs /\ halLog[t] # <<>> => halLog[t][1].fn = "Abort"

\* C18: when erase or page_write releases the mutex to return, on success or
\* on a failure, the chip's write-enable latch is clear.
C18_WriteEnableCleared ==
  \A t \in Threads : pc[t] \in {"er_unlock", "pw_unlock"} => ~chip.wel

\* C19: an identity query that returns true hands out three fields of one
\* identification response: a triple of IdSet, never the manufacturer of one
\* response with the type or capacity of another.
C19_IdentityAtomic ==
  \A t \in Threads :
    pc[t] = "gid_ret" /\ res[t] => loc[t].buff \in IdSet

\* The HAL calls of page_write, in the order of the function.
PWSteps ==
  << [fn |-> "Command", Instruction |-> "WRITE_ENABLE"],
     [fn |-> "Command", Instruction |-> "QUAD_PAGE_PROGRAM"],
     [fn |-> "Transmit", Instruction |-> "QUAD_PAGE_PROGRAM"],
     [fn |-> "AutoPolling_IT", Instruction |-> "READ_STATUS_REGISTER"] >>

\* The locked statements of page_write.
PWPcs ==
  {"pw_we", "pw_cmd", "pw_tx", "pw_poll", "pw_wait", "pw_fail", "pw_unlock"}

\* C20: the HAL calls of a page_write are, in this order and each once, the
\* write-enable command, the page-program command, the transmit and the start
\* of the auto-polling, each made only after the one before returned HAL_OK,
\* followed at most by the abort of a failure; the page-program command
\* carries the chunk's address and length; and page_write returns true only
\* with all four made and the completion wait, bounded by QSPI_TIMEOUT,
\* successful.
C20_PageWriteOrder ==
  \A t \in Threads :
    LET q == halLog[t]
        n == IF q # <<>> /\ Last(q).fn = "Abort" THEN Len(q) - 1 ELSE Len(q)
    IN  pc[t] \in PWPcs =>
          /\ n <= Len(PWSteps)
          /\ \A i \in 1..n : /\ q[i].fn = PWSteps[i].fn
                             /\ q[i].Instruction = PWSteps[i].Instruction
          /\ \A i \in 1..(n - 1) : q[i].ok
          /\ n < Len(q) => pc[t] = "pw_unlock" /\ ~res[t]
          /\ pc[t] = "pw_tx" =>
               /\ hq.cmd.Address = Last(wlog[t]).address
               /\ hq.cmd.NbData = Last(wlog[t]).count
          /\ pc[t] \in {"pw_wait", "pw_unlock"} /\ n = Len(q) =>
               n = Len(PWSteps) /\ q[n].ok
          /\ pc[t] = "pw_unlock" /\ res[t] =>
               /\ n = Len(q) /\ outcome[t] = "ok"
               /\ loc[t].bound = "QSPI_TIMEOUT"

\* The second page_write of a write has gone through its four HAL calls and
\* its completion wait, and is about to return true.
C20_Witness ==
  /\ pc[1] = "pw_unlock" /\ res[1]
  /\ Len(wlog[1]) = 2 /\ Last(wlog[1]).count > 0
  /\ Len(halLog[1]) = 4

\* The HAL calls of erase after its leading abort, in the order of the function.
ERSteps(which, address) ==
  << [fn |-> "Command", Instruction |-> "WRITE_ENABLE", AddressMode |-> "NONE",
      Address |-> 0],
     [fn |-> "Command", Instruction |-> which,
      AddressMode |-> IF which = "CHIP_ERASE" THEN "NONE" ELSE "1_LINE",
      Address |-> address],
     [fn |-> "AutoPolling_IT", Instruction |-> "READ_STATUS_REGISTER",
      AddressMode |-> "NONE", Address |-> 0] >>

\* The locked statements of erase after its leading abort.
ERPcs == {"er_we", "er_cmd", "er_poll", "er_wait", "er_fail", "er_unlock"}

\* C21: after its leading abort the HAL calls of an erase are, in this order
\* and each once, the write-enable command, the erase command and the start of
\* the auto-polling on the status register, each made only after the one
\* before returned HAL_OK, followed at most by the abort of a failure; the
\* erase command has the requested granularity as its opcode and a 1-line
\* address equal to the given address, except for chip erase, which has no
\* address phase; and erase returns true only with all three accepted and the
\* completion wait successful.
C21_EraseOrder ==
  \A t \in Threads :
    LET q == Tail(halLog[t])
        n == IF q # <<>> /\ Last(q).fn = "Abort" THEN Len(q) - 1 ELSE Len(q)
        steps == ERSteps(arg[t].which, arg[t].address)
    IN  pc[t] \in ERPcs =>
          /\ halLog[t] # <<>> /\ halLog[t][1].fn = "Abort"
          /\ n <= Len(steps)
          /\ \A i \in 1..n : /\ q[i].fn = steps[i].fn
                             /\ q[i].Instruction = steps[i].Instruction
                             /\ q[i].AddressMode = steps[i].AddressMode
                             /\ q[i].AddressMode # "NONE" =>
                                  q[i].Address = steps[i].Address
          /\ \A i \in 1..(n - 1) : q[i].ok
          /\ n < Len(q) => pc[t] = "er_unlock" /\ ~res[t]
          /\ pc[t] = "er_cmd" => n = 1 /\ q[1].ok
          /\ pc[t] = "er_poll" => n = 2 /\ q[2].ok
          /\ pc[t] = "er_wait" => n = 3 /\ q[3].ok
          /\ pc[t] = "er_unlock" /\ res[t] =>
               n = Len(q) /\ n = Len(steps) /\ q[n].ok /\ outcome[t] = "ok"

\* A 32K block erase at address 4096 has made its three HAL calls, its wait
\* has succeeded and it is about to return true.
C21_Witness ==
  /\ pc[1] = "er_unlock" /\ res[1]
  /\ arg[1].which = "BLOCK_32K_ERASE" /\ arg[1].address = 4096
  /\ Len(halLog[1]) = 4 /\ halLog[1][3].Address = 4096

\* The number of 256-byte pages the range [address, address + count) overlaps.
PagesOverlapped(address, count) ==
  (address + count - 1) \div PageSize - address \div PageSize + 1

\* The chunks a write has handed to page_write so far, as <<address, length>>.
Chunks(t) ==
  [i \in 1..Len(wlog[t]) |-> <<wlog[t][i].address, wlog[t][i].count>>]

\* What C22 asks of the chunks of a write of at least one byte.
ChunkPerPage(t) ==
  LET q == wlog[t] IN
  arg[t].op = "write" /\ arg[t].count >= 1 =>
    /\ \A i \in 1..Len(q) :
         /\ q[i].count >= 1
         /\ i < Len(q) => (q[i].address + q[i].count) % PageSize = 0
         /\ i > 1 => q[i].address % PageSize = 0
    /\ Len(q) <= PagesOverlapped(arg[t].address, arg[t].count)
    /\ pc[t] = "w_ret" /\ res[t] =>
         Len(q) = PagesOverlapped(arg[t].address, arg[t].count)
    /\ pc[t] = "w_ret" /\ res[t] /\ arg[t].address = 0 /\ arg[t].count = 256 =>
         Chunks(t) = << <<0, 256>> >>
    /\ pc[t] = "w_ret" /\ res[t] /\ arg[t].address = 240 /\ arg[t].count = 32 =>
         Chunks(t) = << <<240, 16>>, <<256, 16>> >>

ER_Waited(t) ==
  /\ arg[t].op = "erase" /\ pc[t] \in {"er_fail", "er_unlock"}
  /\ outcome[t] \in {"ok", "CompletionTimeout"}

\* C23: the completion wait of an erase is bounded by the chip-erase bound
\* when the granularity is chip erase and by the sector/block erase bound for
\* every other granularity, and the chip-erase bound is strictly longer than
\* the sector/block erase bound.
C23_EraseWaitBound ==
  \A t \in Threads :
    ER_Waited(t) =>
      /\ loc[t].bound = IF arg[t].which = "CHIP_ERASE"
                          THEN "QSPI_CHIP_ERASE_TIMEOUT"
                          ELSE "QSPI_ERASE_TIMEOUT"
      /\ arg[t].which = "CHIP_ERASE" =>
           EraseTimeout[loc[t].bound] > EraseTimeout["QSPI_ERASE_TIMEOUT"]
      /\ arg[t].which # "CHIP_ERASE" =>
           EraseTimeout[loc[t].bound] < EraseTimeout["QSPI_CHIP_ERASE_TIMEOUT"]

\* erase(0, chip) has waited for its completion and the wait has run out.
C23_Witness ==
  /\ ER_Waited(1) /\ outcome[1] = "CompletionTimeout"
  /\ arg[1].which = "CHIP_ERASE" /\ arg[1].address = 0
  /\ loc[1].bound = "QSPI_CHIP_ERASE_TIMEOUT"

====
